---- MODULE Spec2Model ----
(***************************************************************************)
(* k8s-pod-detective: the polling failure detector (pkg/detector) and the  *)
(* explanation renderer (pkg/explainer).                                   *)
(*                                                                         *)
(* Go strings are TLA+ strings; fmt.Sprintf is string concatenation, with  *)
(* %d rendered by ToString.  The emoji that open some headings of the      *)
(* explainer's text and the arrow of explainExitCode are written in ASCII  *)
(* ("->"); every other byte of the text is the source's.                   *)
(***************************************************************************)
EXTENDS Integers, Sequences, FiniteSets, TLC

VARIABLES
    pc,         \* position of WatchPods: "polling", "scanning" or "returned"
    seen,       \* PodDetector.seen: the keys mapped to true
    cursor,     \* how far into Listing the scan of pods.Items has come
    emitted,    \* FailureInfo records the last step built and explained on
                \* stdout, in order
    rendered,   \* history: key -> number of explanations printed for it
    rendersOf,  \* history: observed failure condition -> explanations printed for it
    healthy,    \* history: containers that have failed and showed no failure
                \*          in their latest poll
    last        \* history: what the last step was and what it was given

vars == <<pc, seen, cursor, emitted, rendered, rendersOf,
          healthy, last>>

\* a nil pointer
Nil == [nil |-> TRUE]

(***************************************************************************)
(* Bounds of the model.                                                    *)
(***************************************************************************)
\* the largest number of distinct keys a run reports: the detector polls on
\* in a state with this many keys, but reports nothing new
MaxSeen == 2

\* the namespace flag's default
namespace == "default"

\* <<pod name, container name>>: pod "a" runs containers "b-c" and "c", pod
\* "a-b" runs container "c", in the order the API server lists them (by pod
\* name, a pod's containers in the order of its spec)
Listing == << <<"a", "b-c">>, <<"a", "c">>, <<"a-b", "c">> >>
Containers == {Listing[i] : i \in 1..Len(Listing)}

WaitingReasons ==
    {"CrashLoopBackOff", "ImagePullBackOff", "ContainerCreating", "crashloopbackoff"}
\* <<exit code, reason>> of a terminated container
Terminations ==
    {<<0, "Completed">>, <<1, "">>, <<137, "Error">>}
WaitingMessages == {"back-off restarting failed container"}
TerminatedMessages == {""}
LogTails == {"", "fatal: OOM"}

\* corev1.ContainerState: at most one of Waiting, Running, Terminated is set
ContainerStates ==
    {[Waiting |-> Nil, Running |-> [Started |-> TRUE], Terminated |-> Nil]}
    \cup {[Waiting |-> [Reason |-> r, Message |-> m], Running |-> Nil,
           Terminated |-> Nil] : r \in WaitingReasons, m \in WaitingMessages}
    \cup {[Waiting |-> Nil, Running |-> Nil,
           Terminated |-> [ExitCode |-> t[1], Reason |-> t[2], Message |-> m]] :
              t \in Terminations, m \in TerminatedMessages}

\* what GetLogs(...).Do(ctx).Raw() can return: an error, or the raw tail
\* (with an error the body is the server's status text)
LogResults == {[err |-> TRUE, raw |-> "container not found"]}
              \cup {[err |-> FALSE, raw |-> l] : l \in LogTails}

(***************************************************************************)
(* pkg/detector                                                            *)
(***************************************************************************)
failureReasons ==
    <<"CrashLoopBackOff", "ImagePullBackOff", "ErrImagePull",
      "CreateContainerConfigError", "InvalidImageName", "RunContainerError">>

\* the reasons of failureReasons in lower case
lowerReasons ==
    <<"crashloopbackoff", "imagepullbackoff", "errimagepull",
      "createcontainerconfigerror", "invalidimagename", "runcontainererror">>

\* isFailureReason comparing with strings.EqualFold
isFailureReasonFold(reason) ==
    \E i \in 1..Len(failureReasons) :
        reason = failureReasons[i] \/ reason = lowerReasons[i]

isFailureReason(reason) ==
    \E i \in 1..Len(failureReasons) : reason = failureReasons[i]

podKey(pod) == pod.Namespace \o "/" \o pod.Name

waitingKey(pod, cs) ==
    podKey(pod) \o "-" \o cs.Name \o "-" \o cs.State.Waiting.Reason

terminatedKey(pod, cs) ==
    podKey(pod) \o "-" \o cs.Name \o "-terminated-"
        \o ToString(cs.State.Terminated.ExitCode)

\* getLastLog without the err check
getLastLogUnchecked(res) == res.raw

getLastLog(res) == IF res.err THEN "" ELSE res.raw

gatherFailureInfo(pod, cs, res) ==
    [PodName       |-> pod.Name,
     Namespace     |-> pod.Namespace,
     ContainerName |-> cs.Name,
     Reason        |-> cs.State.Waiting.Reason,
     Message       |-> cs.State.Waiting.Message,
     ExitCode      |-> 0,
     LastLog       |-> getLastLog(res)]

\* gatherTerminationInfo without the default for an empty reason
gatherTerminationInfoAsIs(pod, cs, res) ==
    [PodName       |-> pod.Name,
     Namespace     |-> pod.Namespace,
     ContainerName |-> cs.Name,
     Reason        |-> cs.State.Terminated.Reason,
     Message       |-> cs.State.Terminated.Message,
     ExitCode      |-> cs.State.Terminated.ExitCode,
     LastLog       |-> getLastLog(res)]

gatherTerminationInfo(pod, cs, res) ==
    [PodName       |-> pod.Name,
     Namespace     |-> pod.Namespace,
     ContainerName |-> cs.Name,
     Reason        |-> IF cs.State.Terminated.Reason = "" THEN "CrashLoopBackOff"
                       ELSE cs.State.Terminated.Reason,
     Message       |-> cs.State.Terminated.Message,
     ExitCode      |-> cs.State.Terminated.ExitCode,
     LastLog       |-> getLastLog(res)]

(***************************************************************************)
(* pkg/explainer                                                           *)
(***************************************************************************)
\* explainExitCode without the case for 255
explainExitCodeNo255(code) ==
    CASE code = 0   -> "-> Exit code 0: Success (but should not crash)"
      [] code = 1   -> "-> Exit code 1: Application error - check your code for bugs"
      [] code = 2   -> "-> Exit code 2: Misuse of shell command"
      [] code = 126 -> "-> Exit code 126: Command cannot execute (permission problem?)"
      [] code = 127 -> "-> Exit code 127: Command not found (binary doesn't exist?)"
      [] code = 130 -> "-> Exit code 130: Terminated by Ctrl+C (SIGINT)"
      [] code = 137 -> "-> Exit code 137: Killed by SIGKILL (usually OOM or forced termination)"
      [] code = 139 -> "-> Exit code 139: Segmentation fault (memory access violation)"
      [] code = 143 -> "-> Exit code 143: Terminated by SIGTERM (graceful shutdown)"
      [] OTHER      -> "-> Exit code " \o ToString(code)
                           \o ": Check application documentation"

explainExitCode(code) ==
    CASE code = 0   -> "-> Exit code 0: Success (but should not crash)"
      [] code = 1   -> "-> Exit code 1: Application error - check your code for bugs"
      [] code = 2   -> "-> Exit code 2: Misuse of shell command"
      [] code = 126 -> "-> Exit code 126: Command cannot execute (permission problem?)"
      [] code = 127 -> "-> Exit code 127: Command not found (binary doesn't exist?)"
      [] code = 130 -> "-> Exit code 130: Terminated by Ctrl+C (SIGINT)"
      [] code = 137 -> "-> Exit code 137: Killed by SIGKILL (usually OOM or forced termination)"
      [] code = 139 -> "-> Exit code 139: Segmentation fault (memory access violation)"
      [] code = 143 -> "-> Exit code 143: Terminated by SIGTERM (graceful shutdown)"
      [] code = 255 -> "-> Exit code 255: Exit status out of range"
      [] OTHER      -> "-> Exit code " \o ToString(code)
                           \o ": Check application documentation"

explainCrashLoopBackOff(info) ==
       "WHAT HAPPENED:\n"
    \o "Your container keeps crashing and restarting.\n\n"
    \o "WHAT THIS MEANS:\n"
    \o "The application inside the container starts but then immediately fails.\n"
    \o "Kubernetes tried to restart it multiple times but it keeps crashing.\n\n"
    \o (IF info.ExitCode # 0
          THEN "Exit Code: " \o ToString(info.ExitCode) \o "\n"
               \o explainExitCode(info.ExitCode) \o "\n\n"
          ELSE "")
    \o (IF info.LastLog # ""
          THEN "LAST ERROR MESSAGE:\n"
               \o info.LastLog \o "\n\n"
          ELSE "")
    \o "HOW TO FIX:\n"
    \o "1. Check application logs for startup errors\n"
    \o "2. Verify environment variables and configuration\n"
    \o "3. Test the container image locally\n"
    \o "4. Check dependencies (database, APIs, etc.)\n\n"
    \o "DEBUG COMMANDS:\n"
    \o "-------------------\n\n"
    \o "# 1. View recent logs (last 50 lines)\n"
    \o "kubectl logs " \o info.PodName \o " -n " \o info.Namespace \o " --tail=50\n\n"
    \o "# 2. View logs from previous crash\n"
    \o "kubectl logs " \o info.PodName \o " -n " \o info.Namespace \o " --previous\n\n"
    \o "# 3. View all logs with timestamps\n"
    \o "kubectl logs " \o info.PodName \o " -n " \o info.Namespace \o " --timestamps=true --all-containers=true\n\n"
    \o "# 4. Stream logs in real-time\n"
    \o "kubectl logs " \o info.PodName \o " -n " \o info.Namespace \o " -f\n\n"
    \o "# 5. Get detailed pod information\n"
    \o "kubectl describe pod " \o info.PodName \o " -n " \o info.Namespace \o "\n\n"
    \o "# 6. Check pod events (last activities)\n"
    \o "kubectl get events -n " \o info.Namespace \o " --field-selector involvedObject.name=" \o info.PodName \o " --sort-by='.lastTimestamp'\n\n"
    \o "# 7. Get pod YAML configuration\n"
    \o "kubectl get pod " \o info.PodName \o " -n " \o info.Namespace \o " -o yaml\n\n"
    \o "# 8. Check environment variables\n"
    \o "kubectl exec " \o info.PodName \o " -n " \o info.Namespace \o " -- env\n\n"
    \o "# 9. Try to exec into container (if it stays up long enough)\n"
    \o "kubectl exec -it " \o info.PodName \o " -n " \o info.Namespace \o " -- /bin/sh\n\n"
    \o "# 10. Check resource usage\n"
    \o "kubectl top pod " \o info.PodName \o " -n " \o info.Namespace \o "\n\n"
    \o "COMMON CAUSES:\n"
    \o "- Missing required environment variables\n"
    \o "- Database connection failures\n"
    \o "- External service unavailable\n"
    \o "- Configuration file errors\n"
    \o "- Application code bugs\n"
    \o "- Port already in use\n"
    \o "- File system permissions\n"

explainImagePullError(info) ==
       "WHAT HAPPENED:\n"
    \o "Kubernetes cannot download your container image.\n\n"
    \o "WHAT THIS MEANS:\n"
    \o "The image specified in your deployment doesn't exist, has the wrong name,\n"
    \o "or Kubernetes doesn't have permission to pull it from the registry.\n\n"
    \o "HOW TO FIX:\n"
    \o "1. Verify the image name and tag are correct\n"
    \o "2. Check if the image exists in the registry\n"
    \o "3. Ensure image pull secrets are configured correctly\n"
    \o "4. Verify registry credentials are valid\n\n"
    \o "DEBUG COMMANDS:\n"
    \o "-------------------\n\n"
    \o "# 1. Check pod description for image details\n"
    \o "kubectl describe pod " \o info.PodName \o " -n " \o info.Namespace \o " | grep -A5 'Image'\n\n"
    \o "# 2. View detailed error message\n"
    \o "kubectl describe pod " \o info.PodName \o " -n " \o info.Namespace \o " | grep -A10 'Events'\n\n"
    \o "# 3. Get pod events\n"
    \o "kubectl get events -n " \o info.Namespace \o " --field-selector involvedObject.name=" \o info.PodName \o "\n\n"
    \o "# 4. Check if image pull secret exists\n"
    \o "kubectl get secrets -n " \o info.Namespace \o "\n\n"
    \o "# 5. Describe the image pull secret\n"
    \o "kubectl get secret  -n " \o info.Namespace \o " -o yaml\n\n"
    \o "# 6. Test pulling the image locally (if using Docker)\n"
    \o "# First, get the image name from pod:\n"
    \o "kubectl get pod " \o info.PodName \o " -n " \o info.Namespace \o " -o jsonpath='{.spec.containers[*].image}'\n"
    \o "# Then try pulling it:\n"
    \o "docker pull \n\n"
    \o "# 7. Check deployment/pod spec\n"
    \o "kubectl get pod " \o info.PodName \o " -n " \o info.Namespace \o " -o yaml | grep -A5 'image:'\n\n"
    \o "# 8. List all image pull secrets in namespace\n"
    \o "kubectl get serviceaccount default -n " \o info.Namespace \o " -o yaml | grep -A3 'imagePullSecrets'\n\n"
    \o "COMMON CAUSES:\n"
    \o "- Typo in image name or tag\n"
    \o "- Image doesn't exist in registry\n"
    \o "- Private registry without credentials\n"
    \o "- Expired or invalid image pull secret\n"
    \o "- Wrong registry URL\n"
    \o "- Tag 'latest' doesn't exist\n"
    \o "- Network issues accessing registry\n\n"
    \o "CREATE IMAGE PULL SECRET:\n"
    \o "kubectl create secret docker-registry regcred \\\n"
    \o "  --docker-server= \\\n"
    \o "  --docker-username= \\\n"
    \o "  --docker-password= \\\n"
    \o "  --docker-email= \\\n"
    \o "  -n " \o info.Namespace \o "\n"

explainOOMKilled(info) ==
       "WHAT HAPPENED:\n"
    \o "Your container ran out of memory (OOM = Out Of Memory).\n\n"
    \o "WHAT THIS MEANS:\n"
    \o "The application used more memory than the limit you set.\n"
    \o "Kubernetes killed it to prevent affecting other pods on the node.\n\n"
    \o "HOW TO FIX:\n"
    \o "1. Increase memory limits in your deployment\n"
    \o "2. Fix memory leaks in your application\n"
    \o "3. Optimize memory usage\n"
    \o "4. Use memory profiling tools\n\n"
    \o "DEBUG COMMANDS:\n"
    \o "-------------------\n\n"
    \o "# 1. Check current memory limits\n"
    \o "kubectl get pod " \o info.PodName \o " -n " \o info.Namespace \o " -o jsonpath='{.spec.containers[*].resources}'\n\n"
    \o "# 2. View actual memory usage (if metrics-server is installed)\n"
    \o "kubectl top pod " \o info.PodName \o " -n " \o info.Namespace \o "\n\n"
    \o "# 3. Check historical resource usage\n"
    \o "kubectl describe pod " \o info.PodName \o " -n " \o info.Namespace \o " | grep -A5 'Limits\\|Requests'\n\n"
    \o "# 4. View OOM events\n"
    \o "kubectl get events -n " \o info.Namespace \o " --field-selector reason=OOMKilling\n\n"
    \o "# 5. Check node memory pressure\n"
    \o "kubectl describe nodes | grep -A5 'Memory'\n\n"
    \o "# 6. Get pod restart count\n"
    \o "kubectl get pod " \o info.PodName \o " -n " \o info.Namespace \o " -o jsonpath='{.status.containerStatuses[*].restartCount}'\n\n"
    \o "# 7. View logs before OOM kill\n"
    \o "kubectl logs " \o info.PodName \o " -n " \o info.Namespace \o " --previous --tail=100\n\n"
    \o "HOW TO INCREASE MEMORY:\n\n"
    \o "Edit your deployment/pod spec:\n\n"
    \o "resources:\n"
    \o "  requests:\n"
    \o "    memory: \"256Mi\"  # Minimum guaranteed\n"
    \o "  limits:\n"
    \o "    memory: \"512Mi\"  # Maximum allowed (INCREASE THIS)\n\n"
    \o "Then apply changes:\n"
    \o "kubectl edit deployment  -n " \o info.Namespace \o "\n\n"
    \o "COMMON CAUSES:\n"
    \o "- Memory limit set too low\n"
    \o "- Memory leak in application\n"
    \o "- Loading too much data at once\n"
    \o "- Inefficient caching\n"
    \o "- Large file processing\n"

explainConfigError(info) ==
       "WHAT HAPPENED:\n"
    \o "There's a problem with your container configuration.\n\n"
    \o "WHAT THIS MEANS:\n"
    \o "Kubernetes found an error in your pod/container configuration\n"
    \o "before it could even start the container.\n\n"
    \o "HOW TO FIX:\n"
    \o "1. Verify all ConfigMaps and Secrets exist\n"
    \o "2. Check volume mount paths are correct\n"
    \o "3. Ensure environment variables reference valid resources\n"
    \o "4. Validate YAML syntax\n\n"
    \o "DEBUG COMMANDS:\n"
    \o "-------------------\n\n"
    \o "# 1. Get detailed error description\n"
    \o "kubectl describe pod " \o info.PodName \o " -n " \o info.Namespace \o "\n\n"
    \o "# 2. Check if referenced ConfigMaps exist\n"
    \o "kubectl get configmaps -n " \o info.Namespace \o "\n\n"
    \o "# 3. Check if referenced Secrets exist\n"
    \o "kubectl get secrets -n " \o info.Namespace \o "\n\n"
    \o "# 4. View pod YAML to find configuration issues\n"
    \o "kubectl get pod " \o info.PodName \o " -n " \o info.Namespace \o " -o yaml\n\n"
    \o "# 5. Check volume mounts\n"
    \o "kubectl get pod " \o info.PodName \o " -n " \o info.Namespace \o " -o jsonpath='{.spec.volumes}'\n\n"
    \o "COMMON CAUSES:\n"
    \o "- Missing ConfigMap or Secret\n"
    \o "- Wrong ConfigMap/Secret key name\n"
    \o "- Invalid volume mount path\n"
    \o "- Incorrect environment variable reference\n"

explainRunContainerError(info) ==
       "WHAT HAPPENED:\n"
    \o "Kubernetes couldn't start your container.\n\n"
    \o "DEBUG COMMANDS:\n"
    \o "-------------------\n\n"
    \o "kubectl describe pod " \o info.PodName \o " -n " \o info.Namespace \o "\n\n"
    \o "kubectl get events -n " \o info.Namespace \o " --field-selector involvedObject.name=" \o info.PodName \o "\n\n"

explainInvalidImageName(info) ==
       "WHAT HAPPENED:\n"
    \o "The container image name is invalid or malformed.\n\n"
    \o "DEBUG COMMANDS:\n"
    \o "-------------------\n\n"
    \o "# Check the image name\n"
    \o "kubectl get pod " \o info.PodName \o " -n " \o info.Namespace \o " -o jsonpath='{.spec.containers[*].image}'\n\n"

explainGeneric(info) ==
       "WHAT HAPPENED:\n" \o info.Reason \o "\n\n"
    \o (IF info.Message # ""
          THEN "ERROR MESSAGE:\n" \o info.Message \o "\n\n"
          ELSE "")
    \o "DEBUG COMMANDS:\n"
    \o "-------------------\n\n"
    \o "# 1. Get detailed pod information\n"
    \o "kubectl describe pod " \o info.PodName \o " -n " \o info.Namespace \o "\n\n"
    \o "# 2. View logs\n"
    \o "kubectl logs " \o info.PodName \o " -n " \o info.Namespace \o "\n\n"
    \o "# 3. View previous logs (if restarted)\n"
    \o "kubectl logs " \o info.PodName \o " -n " \o info.Namespace \o " --previous\n\n"
    \o "# 4. Check events\n"
    \o "kubectl get events -n " \o info.Namespace \o " --field-selector involvedObject.name=" \o info.PodName \o " --sort-by='.lastTimestamp'\n\n"

header(info) ==
       "PROBLEM DETECTED\n"
    \o "=====================================\n"
    \o "Pod: " \o info.Namespace \o "/" \o info.PodName \o "\n"
    \o "Container: " \o info.ContainerName \o "\n\n"

\* the switch of Explain without the "ErrImagePull" label
templateOneLabel(info) ==
    CASE info.Reason = "CrashLoopBackOff" -> explainCrashLoopBackOff(info)
      [] info.Reason = "ImagePullBackOff" -> explainImagePullError(info)
      [] info.Reason = "OOMKilled" -> explainOOMKilled(info)
      [] info.Reason = "CreateContainerConfigError" -> explainConfigError(info)
      [] info.Reason = "RunContainerError" -> explainRunContainerError(info)
      [] info.Reason = "InvalidImageName" -> explainInvalidImageName(info)
      [] OTHER -> explainGeneric(info)

template(info) ==
    CASE info.Reason = "CrashLoopBackOff" -> explainCrashLoopBackOff(info)
      [] info.Reason \in {"ImagePullBackOff", "ErrImagePull"} ->
             explainImagePullError(info)
      [] info.Reason = "OOMKilled" -> explainOOMKilled(info)
      [] info.Reason = "CreateContainerConfigError" -> explainConfigError(info)
      [] info.Reason = "RunContainerError" -> explainRunContainerError(info)
      [] info.Reason = "InvalidImageName" -> explainInvalidImageName(info)
      [] OTHER -> explainGeneric(info)

Explain(info) == header(info) \o template(info)

(***************************************************************************)
(* checkPod, one containerStatus of the range at a time.  A scan state     *)
(* carries d.seen and what the iteration has done so far: the records it   *)
(* built and printed the explanation of, the log results it consumed and,  *)
(* for every failure condition it examined, whether it printed for it.     *)
(***************************************************************************)
waitingCondition(pod, cs) ==
    [Namespace |-> pod.Namespace, PodName |-> pod.Name, ContainerName |-> cs.Name,
     Phase |-> "Waiting", Reason |-> cs.State.Waiting.Reason, ExitCode |-> 0]

terminatedCondition(pod, cs) ==
    [Namespace |-> pod.Namespace, PodName |-> pod.Name, ContainerName |-> cs.Name,
     Phase |-> "Terminated", Reason |-> "",
     ExitCode |-> cs.State.Terminated.ExitCode]

\* report without d.seen[statusKey] = true
reportUnmarked(s, cond, key, info, res) ==
    [seen    |-> s.seen,
     emitted |-> Append(s.emitted, info),
     fetched |-> Append(s.fetched, res),
     checks  |-> Append(s.checks, [cond |-> cond, key |-> key, rendered |-> TRUE])]

report(s, cond, key, info, res) ==
    [seen    |-> s.seen \cup {key},
     emitted |-> Append(s.emitted, info),
     fetched |-> Append(s.fetched, res),
     checks  |-> Append(s.checks, [cond |-> cond, key |-> key, rendered |-> TRUE])]

skip(s, cond, key) ==
    [s EXCEPT !.checks = Append(@, [cond |-> cond, key |-> key, rendered |-> FALSE])]

\* checkWaiting without the lookup in d.seen
checkWaitingUnguarded(s, pod, cs, res) ==
    IF cs.State.Waiting # Nil /\ isFailureReason(cs.State.Waiting.Reason)
    THEN report(s, waitingCondition(pod, cs), waitingKey(pod, cs),
                gatherFailureInfo(pod, cs, res), res)
    ELSE s

checkWaiting(s, pod, cs, res) ==
    IF cs.State.Waiting # Nil /\ isFailureReason(cs.State.Waiting.Reason)
    THEN LET statusKey == waitingKey(pod, cs) IN
         IF statusKey \notin s.seen
         THEN report(s, waitingCondition(pod, cs), statusKey,
                     gatherFailureInfo(pod, cs, res), res)
         ELSE skip(s, waitingCondition(pod, cs), statusKey)
    ELSE s

\* checkTerminated without the lookup in d.seen
checkTerminatedUnguarded(s, pod, cs, res) ==
    IF cs.State.Terminated # Nil /\ cs.State.Terminated.ExitCode # 0
    THEN report(s, terminatedCondition(pod, cs), terminatedKey(pod, cs),
                gatherTerminationInfo(pod, cs, res), res)
    ELSE s

checkTerminated(s, pod, cs, res) ==
    IF cs.State.Terminated # Nil /\ cs.State.Terminated.ExitCode # 0
    THEN LET statusKey == terminatedKey(pod, cs) IN
         IF statusKey \notin s.seen
         THEN report(s, terminatedCondition(pod, cs), statusKey,
                     gatherTerminationInfo(pod, cs, res), res)
         ELSE skip(s, terminatedCondition(pod, cs), statusKey)
    ELSE s

checkPod(d, pod, cs, res) ==
    checkTerminated(
        checkWaiting([seen |-> d, emitted |-> <<>>,
                      fetched |-> <<>>, checks |-> <<>>], pod, cs, res),
        pod, cs, res)

(***************************************************************************)
(* History bookkeeping.                                                    *)
(***************************************************************************)
Count(f, x) == IF x \in DOMAIN f THEN f[x] ELSE 0

RECURSIVE Tally(_, _, _)
\* f with, for every check of the sequence, the count of pick(check) raised
\* by one when the check printed an explanation
Tally(f, checks, byKey) ==
    IF checks = <<>> THEN f
    ELSE LET c == Head(checks)
             x == IF byKey THEN c.key ELSE c.cond
             n == Count(f, x) + (IF c.rendered THEN 1 ELSE 0)
             g == [y \in DOMAIN f \cup {x} |-> IF y = x THEN n ELSE f[y]]
         IN Tally(g, Tail(checks), byKey)

\* what the last step wrote to stdout: fmt.Println(explainer.Explain(info))
\* for every record it built
printed == [i \in DOMAIN emitted |-> Explain(emitted[i])]

Reported(cond) == Count(rendersOf, cond) >= 1

(***************************************************************************)
(* WatchPods                                                               *)
(***************************************************************************)
Init ==
    /\ pc = "polling"
    /\ seen = {}
    /\ cursor = 0
    /\ emitted = <<>>
    /\ rendered = <<>>
    /\ rendersOf = <<>>
    /\ healthy = {}
    /\ last = [kind |-> "new"]

\* Pods(namespace).List succeeds: the scan of pods.Items begins
ListPods ==
    /\ pc = "polling"
    /\ pc' = "scanning"
    /\ cursor' = 0
    /\ emitted' = <<>>
    /\ last' = [kind |-> "list"]
    /\ UNCHANGED <<seen, rendered, rendersOf, healthy>>

\* ListFails logging the error and sleeping until the next poll
ListFailsRetried ==
    /\ pc = "polling"
    /\ pc' = "polling"
    /\ emitted' = <<>>
    /\ last' = [kind |-> "listFail"]
    /\ UNCHANGED <<seen, cursor, rendered, rendersOf, healthy>>

\* Pods(namespace).List fails: WatchPods returns the wrapped error
ListFails ==
    /\ pc = "polling"
    /\ pc' = "returned"
    /\ emitted' = <<>>
    /\ last' = [kind |-> "listFail"]
    /\ UNCHANGED <<seen, cursor, rendered, rendersOf, healthy>>

\* the containers that Listing holds after position i and up to position j:
\* a scan that goes from i to beyond j did not find them in pods.Items
Passed(i, j) == {Listing[k] : k \in (i + 1)..j}

\* the containers a failure condition has been observed of
Failed == {<<cond.PodName, cond.ContainerName>> : cond \in DOMAIN rendersOf}

\* the next containerStatus of pods.Items is that of container Listing[i], in
\* state st; res is the answer GetLogs gives if it is asked for its log
CheckContainer(i, st, res) ==
    LET c   == Listing[i]
        pod == [Namespace |-> namespace, Name |-> c[1]]
        cs  == [Name |-> c[2], State |-> st]
        was == healthy \cup (Passed(cursor, i - 1) \cap Failed)
    IN /\ pc = "scanning"
       /\ i > cursor
       /\ \E eff \in {checkPod(seen, pod, cs, res)} :
            /\ Cardinality(eff.seen) <= MaxSeen
            /\ seen' = eff.seen
            /\ emitted' = eff.emitted
            /\ rendered' = Tally(rendered, eff.checks, TRUE)
            /\ rendersOf' = Tally(rendersOf, eff.checks, FALSE)
            /\ healthy' = IF eff.checks # <<>> THEN was \ {c}
                           ELSE was \cup ({c} \cap Failed)
            /\ last' = [kind    |-> "check",
                        cs      |-> cs,
                        before  |-> seen,
                        checks  |-> eff.checks,
                        fetched |-> eff.fetched,
                        \* a condition reported earlier is back after the
                        \* container showed no failure
                        recur   |-> /\ c \in was
                                    /\ \E k \in 1..Len(eff.checks) :
                                           Reported(eff.checks[k].cond)
                        ,
                        \* the container was failing in its latest poll and
                        \* now shows a condition never observed of it
                        changed |-> /\ c \in Failed \ was
                                    /\ \E k \in 1..Len(eff.checks) :
                                           eff.checks[k].cond \notin DOMAIN rendersOf]
       /\ cursor' = i
       /\ UNCHANGED pc

\* pods.Items is exhausted: the containers not listed were absent from this
\* poll; WatchPods sleeps 10 seconds and polls again
Sleep ==
    /\ pc = "scanning"
    /\ pc' = "polling"
    /\ healthy' = healthy \cup (Passed(cursor, Len(Listing)) \cap Failed)
    /\ emitted' = <<>>
    /\ last' = [kind |-> "sleep"]
    /\ UNCHANGED <<seen, cursor, rendered, rendersOf>>

Next ==
    \/ ListPods
    \/ ListFails
    \/ \E i \in 1..Len(Listing), st \in ContainerStates, res \in LogResults :
           CheckContainer(i, st, res)
    \/ Sleep

Spec == Init /\ [][Next]_vars

(***************************************************************************)
(* Explain on its own: every FailureInfo of Infos is given to it in turn.  *)
(***************************************************************************)
Reasons ==
    {failureReasons[i] : i \in 1..Len(failureReasons)}
    \cup {"OOMKilled", "Error", "Completed", "ContainerCannotRun",
          "crashloopbackoff", "ErrImagePull "}

Infos ==
    [PodName       : {"a-b"},
     Namespace     : {namespace},
     ContainerName : {"c"},
     Reason        : Reasons,
     Message       : {"", "back-off restarting failed container"},
     ExitCode      : {0, 1, 3, 137},
     LastLog       : {"", "fatal: OOM"}]

InitExplain ==
    /\ pc = "explaining"
    /\ seen = {}
    /\ cursor = 0
    /\ emitted = <<>>
    /\ rendered = <<>>
    /\ rendersOf = <<>>
    /\ healthy = {}
    /\ last = [kind |-> "new"]

\* fmt.Println(explainer.Explain(info))
ExplainInfo(info) ==
    /\ pc = "explaining"
    /\ emitted' = <<info>>
    /\ last' = [kind |-> "explain"]
    /\ UNCHANGED <<pc, seen, cursor, rendered, rendersOf, healthy>>

\* the int32 exit codes given to explainExitCode: those of its switch, their
\* neighbours, and values outside 0..255
Codes ==
    {0, 1, 2, 126, 127, 130, 137, 139, 143, 255}
    \cup {-1, 3, 125, 128, 138, 254, 256, 1000}

\* explainExitCode(code)
ExplainExitCode(code) ==
    /\ pc = "explaining"
    /\ emitted' = <<>>
    /\ last' = [kind |-> "exitCode", code |-> code, text |-> explainExitCode(code)]
    /\ UNCHANGED <<pc, seen, cursor, rendered, rendersOf, healthy>>

NextExplain ==
    \/ \E info \in Infos : ExplainInfo(info)
    \/ \E code \in Codes : ExplainExitCode(code)

SpecExplain == InitExplain /\ [][NextExplain]_vars

(***************************************************************************)
(* Properties                                                              *)
(***************************************************************************)
\* s holds sub as a contiguous substring
Contains(s, sub) ==
    \E i \in 1..(Len(s) - Len(sub) + 1) : SubSeq(s, i, i + Len(sub) - 1) = sub

Checked == last.kind = "check"

\* the waiting reasons the detector is specified to act on
AcceptedReasons ==
    {"CrashLoopBackOff", "ImagePullBackOff", "ErrImagePull",
     "CreateContainerConfigError", "InvalidImageName", "RunContainerError"}

\* the key of a failure condition, by the detector's own formatting
KeyOf(cond) ==
    LET pod == [Namespace |-> cond.Namespace, Name |-> cond.PodName]
    IN IF cond.Phase = "Waiting"
       THEN waitingKey(pod, [Name |-> cond.ContainerName,
                             State |-> [Waiting |-> [Reason |-> cond.Reason]]])
       ELSE terminatedKey(pod, [Name |-> cond.ContainerName,
                                State |-> [Terminated |->
                                              [ExitCode |-> cond.ExitCode]]])

\* C1: over any sequence of poll cycles, the number of explanations printed
\* for any one DedupKey is at most one.
C1_AtMostOncePerKey == \A k \in DOMAIN rendered : rendered[k] <= 1

\* a key that was reported is observed again, and nothing is printed for it
C1_Witness ==
    /\ Checked
    /\ \E i \in 1..Len(last.checks) :
           /\ ~last.checks[i].rendered
           /\ Count(rendered, last.checks[i].key) = 1

\* C2 (as claimed): a failure whose key is not yet in SeenSet is explained
\* exactly once by the check that observes it; a check that observes an
\* unchanged, already reported condition prints nothing; and when a failing
\* container's condition changes to a new one, the new condition is explained
\* once by the check that first observes it.
C2_ReportedExactlyOnce ==
    Checked =>
        \A i \in 1..Len(last.checks) :
            LET ch == last.checks[i] IN
            /\ ch.key \notin last.before =>
                   ch.rendered /\ rendered[ch.key] = 1 /\ Len(emitted) = 1
            /\ ch.key \in last.before /\ ~last.changed => ~ch.rendered
            /\ last.changed => ch.rendered /\ rendersOf[ch.cond] = 1

\* C3: a failure that was reported, cleared (the container showed no failure
\* or was not listed, for any number of polls) and then recurs with the same
\* key is not explained again.
C3_RecurrenceNotReported ==
    (Checked /\ last.recur) =>
        /\ emitted = <<>>
        /\ \A i \in 1..Len(last.checks) : ~last.checks[i].rendered
        /\ seen = last.before

\* a reported failure recurs after the container was healthy or absent
C3_Witness ==
    /\ Checked
    /\ last.recur
    /\ \E i \in 1..Len(last.checks) : rendersOf[last.checks[i].cond] = 1

\* the container states the detector is specified to ignore
NoActionState(st) ==
    \/ st.Running # Nil
    \/ st.Terminated # Nil /\ st.Terminated.ExitCode = 0
    \/ st.Waiting # Nil /\ st.Waiting.Reason \notin AcceptedReasons

\* C4: a container that is Running, Terminated with exit code 0, or Waiting
\* with a reason that is not exactly one of the six accepted ones causes no
\* action: no record, no log fetch, no explanation, SeenSet unchanged.
C4_NoActionWhenHealthy ==
    (Checked /\ NoActionState(last.cs.State)) =>
        /\ emitted = <<>>
        /\ last.fetched = <<>>
        /\ last.checks = <<>>
        /\ seen = last.before

\* a waiting container whose reason differs from an accepted one only in case
\* has been checked while another failure was already on record
C4_Witness ==
    /\ Checked
    /\ last.cs.State.Waiting # Nil
    /\ last.cs.State.Waiting.Reason = "crashloopbackoff"
    /\ seen # {}

\* C5: the first failing list query ends WatchPods at once - it returns
\* from the polling position with nothing fetched, explained or marked seen,
\* and no step follows; WatchPods returns in no other way, and a finished
\* scan always leads to the next poll.
C5_ListFailureEndsLoop ==
    /\ [](pc = "returned" <=> last.kind = "listFail")
    /\ [][last'.kind = "listFail" =>
             /\ pc = "polling"
             /\ emitted' = <<>>
             /\ seen' = seen /\ rendered' = rendered /\ rendersOf' = rendersOf]_vars
    /\ [][pc # "returned"]_vars
    /\ [][last'.kind = "sleep" => pc' = "polling"]_vars

\* WatchPods has returned after at least one report
C5_Witness == pc = "returned" /\ seen # {}

\* C6: when the log fetch for a newly detected failure errors, the record is
\* still built with an empty log tail, explained and its key marked seen, the
\* log is fetched once only, and WatchPods goes on scanning.
C6_LogErrorIsNotFatal ==
    Checked =>
        \A i \in 1..Len(last.fetched) :
            last.fetched[i].err =>
                /\ Len(emitted) = Len(last.fetched)
                /\ emitted[i].LastLog = ""
                /\ \E k \in 1..Len(last.checks) :
                       /\ last.checks[k].rendered
                       /\ last.checks[k].key \in seen \ last.before
                       /\ rendered[last.checks[k].key] = 1
                /\ pc = "scanning"

\* a log fetch has failed with containers still to scan in the cycle
C6_Witness ==
    /\ Checked
    /\ last.fetched # <<>>
    /\ last.fetched[1].err
    /\ cursor < Len(Listing)

\* C7 (as claimed): distinct (namespace, pod, container, reason or exit code)
\* tuples have distinct keys, so no observed failure goes unreported because
\* of another container's report.
C7_KeysIdentifyTuples ==
    /\ \A t1, t2 \in DOMAIN rendersOf : t1 # t2 => KeyOf(t1) # KeyOf(t2)
    /\ \A t \in DOMAIN rendersOf : rendersOf[t] >= 1

\* C8: a container Terminated with a non-zero exit code and no reason gives a
\* record with the default crash label as reason and the observed exit code,
\* and its explanation holds the annotation of that exit code (for exit code
\* 1, the application-error one).
C8_EmptyReasonDefaultsToCrashLoop ==
    (/\ Checked
     /\ last.cs.State.Terminated # Nil
     /\ last.cs.State.Terminated.Reason = ""
     /\ emitted # <<>>) =>
        LET code == last.cs.State.Terminated.ExitCode IN
        /\ Len(emitted) = 1
        /\ emitted[1].Reason = "CrashLoopBackOff"
        /\ emitted[1].ExitCode = code
        /\ Contains(printed[1], "Exit Code: " \o ToString(code) \o "\n")
        /\ Contains(printed[1], "Exit code " \o ToString(code) \o ": ")
        /\ code = 1 => Contains(printed[1], "Exit code 1: Application error")

\* a container that exited with code 1 and no reason has been reported
C8_Witness ==
    /\ Checked
    /\ last.cs.State.Terminated # Nil
    /\ last.cs.State.Terminated.Reason = ""
    /\ last.cs.State.Terminated.ExitCode = 1
    /\ emitted # <<>>

\* the line that tells each narrative template from the others
Marker(name, info) ==
    CASE name = "crash-loop"  -> "Your container keeps crashing and restarting.\n"
      [] name = "image-pull"  -> "Kubernetes cannot download your container image.\n"
      [] name = "oom"         -> "Your container ran out of memory (OOM = Out Of Memory).\n"
      [] name = "config"      -> "There's a problem with your container configuration.\n"
      [] name = "run"         -> "Kubernetes couldn't start your container.\n"
      [] name = "image-name"  -> "The container image name is invalid or malformed.\n"
      [] name = "generic"     -> "WHAT HAPPENED:\n" \o info.Reason \o "\n\n"

Templates ==
    {"crash-loop", "image-pull", "oom", "config", "run", "image-name", "generic"}

\* the template the renderer is specified to select for a reason
Selected(reason) ==
    CASE reason = "CrashLoopBackOff" -> "crash-loop"
      [] reason \in {"ImagePullBackOff", "ErrImagePull"} -> "image-pull"
      [] reason = "OOMKilled" -> "oom"
      [] reason = "CreateContainerConfigError" -> "config"
      [] reason = "RunContainerError" -> "run"
      [] reason = "InvalidImageName" -> "image-name"
      [] OTHER -> "generic"

\* C9: Explain selects exactly one template, by the record's reason alone:
\* the specified one, with ImagePullBackOff and ErrImagePull giving the same
\* output and every unlisted reason the generic fallback.
C9_TemplateByReason ==
    \A i \in DOMAIN emitted :
        LET info == emitted[i] IN
        /\ \A t \in Templates :
               Contains(printed[i], Marker(t, info)) <=> t = Selected(info.Reason)
        /\ info.Reason = "ImagePullBackOff" =>
               printed[i] = Explain([info EXCEPT !.Reason = "ErrImagePull"])
        /\ info.Reason = "ErrImagePull" =>
               printed[i] = Explain([info EXCEPT !.Reason = "ImagePullBackOff"])

\* a record with reason ErrImagePull has been explained
C9_Witness ==
    /\ last.kind = "explain"
    /\ emitted[1].Reason = "ErrImagePull"

\* C10 (as claimed): whichever template is selected, an explanation holds the
\* record's log tail verbatim when it is not empty, and no log section when
\* it is empty.
C10_LogTailRendered ==
    \A i \in DOMAIN emitted :
        IF emitted[i].LastLog # ""
        THEN Contains(printed[i], emitted[i].LastLog)
        ELSE ~Contains(printed[i], "LAST ERROR MESSAGE:")

\* the exit codes the annotation is specified to know
KnownCodes == {0, 1, 2, 126, 127, 130, 137, 139, 143, 255}

StartsWith(s, prefix) ==
    Len(s) >= Len(prefix) /\ SubSeq(s, 1, Len(prefix)) = prefix

GenericAnnotation(code) ==
    "-> Exit code " \o ToString(code) \o ": Check application documentation"

\* C11: the exit-code annotation is a closed lookup: each of 0, 1, 2, 126,
\* 127, 130, 137, 139, 143, 255 has a fixed description of its own, and every
\* other exit code gets the check-documentation message with that code in it.
C11_ExitCodeLookup ==
    last.kind = "exitCode" =>
        IF last.code \in KnownCodes
        THEN /\ StartsWith(last.text, "-> Exit code " \o ToString(last.code) \o ": ")
             /\ ~Contains(last.text, "Check application documentation")
             /\ \A other \in KnownCodes \ {last.code} :
                    explainExitCode(other) # last.text
        ELSE /\ last.text = GenericAnnotation(last.code)
             /\ Contains(last.text, ToString(last.code))

\* an exit code outside the lookup table has been annotated
C11_Witness ==
    /\ last.kind = "exitCode"
    /\ last.code = 138
    /\ Contains(last.text, "138")

\* the keys an explanation has been printed for so far
RenderedKeys == {k \in DOMAIN rendered : rendered[k] >= 1}

\* C12: SeenSet is exactly the set of keys an explanation has been printed
\* for: it is empty in New, a key enters it only in the container check that
\* prints its explanation, and no key ever leaves it.
C12_SeenIsRenderedKeys ==
    /\ [](seen = RenderedKeys)
    /\ [](last.kind = "new" => seen = {})
    /\ [][/\ seen \subseteq seen'
          /\ \A k \in seen' \ seen :
                 /\ last'.kind = "check"
                 /\ Count(rendered', k) = Count(rendered, k) + 1
                 /\ \E i \in 1..Len(last'.checks) :
                        last'.checks[i].key = k /\ last'.checks[i].rendered]_vars

\* a second key has entered SeenSet with the explanation just printed for it
C12_Witness ==
    /\ Checked
    /\ emitted # <<>>
    /\ Cardinality(seen) = 2
    /\ Cardinality(last.before) = 1

====
